---- MODULE Spec2Model ----
(***************************************************************************)
(* JsDiff (orion.client): the edit-graph search of fbDiff.prototype.diff,  *)
(* the four strategy objects (CharDiff, WordDiff, CssDiff, LineDiff) and   *)
(* createPatch.                                                            *)
(*                                                                         *)
(* A JavaScript string is a sequence of one-character strings.  A token is *)
(* such a sequence too; a tokenized text is a sequence of tokens.  JS      *)
(* positions are 0-based (newPos = -1 before the first token): At(s, i)    *)
(* reads s[i] of the JS code.  undefined/true flags of a component are     *)
(* FALSE/TRUE.  Objects that the code shares by reference (paths, the      *)
(* components arrays, the components) live in a heap and are named by      *)
(* their index in it; 0 is undefined.                                      *)
(***************************************************************************)
EXTENDS Integers, Sequences, FiniteSets, TLC

\* ---------------------------------------------------------------- bounds
MaxLen == 2            \* longest input string of a diff call (Spec)
MaxCallLen == 1        \* longest input string in a sequence of calls (SpecCalls)
MaxCalls == 2          \* calls in a sequence (SpecCalls)
MaxPatchLines == 5     \* most lines of a createPatch input (SpecPatch)

Alphabet == {"a", " ", "\n", ";"}
LineAlphabet == {"a", "b"}

StringsUpTo(n) == UNION {[1..m -> Alphabet] : m \in 0..n}

\* ------------------------------------------------------- character classes
IsSpace(c) == c \in {" ", "\n"}
IsLineTerminator(c) == c = "\n"
IsWordChar(c) == c \in {"a", "b"}
IsCssPunct(c) == c \in {";"}

At(s, i) == s[i + 1]

RECURSIVE Flatten(_)
Flatten(ss) == IF ss = <<>> THEN <<>> ELSE Head(ss) \o Flatten(Tail(ss))

\* The operands of the concatenation the wrong way round
joinReversed(left, right) == right \o left

\* left + right
join(left, right) == left \o right

\* /\S/.test(s) is false
NoNonSpace(s) == \A i \in 1..Len(s) : IsSpace(s[i])

\* ------------------------------------------------------------- tokenizers
\* The pieces of value between the cuts; cuts is the set of the positions i
\* at which the split puts a boundary between value[i] and value[i + 1].
RECURSIVE PiecesFrom(_, _, _, _)
PiecesFrom(value, cuts, start, i) ==
  IF i > Len(value) THEN <<>>
  ELSE IF i = Len(value) \/ i \in cuts
       THEN <<SubSeq(value, start, i)>> \o PiecesFrom(value, cuts, i + 1, i + 1)
       ELSE PiecesFrom(value, cuts, start, i + 1)
Pieces(value, cuts) == PiecesFrom(value, cuts, 1, 1)

\* fbDiff.prototype.tokenize: the string itself, indexed by character
CharTokenize(value) == [i \in 1..Len(value) |-> <<value[i]>>]

\* value.split(/(\s+|\b)/) without the empty pieces: the runs of whitespace
\* and, between them, the pieces between word boundaries
WordClass(c) == IF IsSpace(c) THEN "space" ELSE IF IsWordChar(c) THEN "word" ELSE "other"
WordCut(c, d) == WordClass(c) # WordClass(d)
WordTokenize(value) ==
  Pieces(value, {i \in 1..(Len(value) - 1) : WordCut(value[i], value[i + 1])})

\* value.split(/([{}:;,]|\s+)/) without the empty pieces
CssCut(c, d) == \/ IsCssPunct(c) \/ IsCssPunct(d)
                \/ IsSpace(c) # IsSpace(d)
CssTokenize(value) ==
  Pieces(value, {i \in 1..(Len(value) - 1) : CssCut(value[i], value[i + 1])})

\* value.split(/^/m), a trailing empty piece popped
LineCut(c, d) == IsLineTerminator(c)
LineTokenize(value) ==
  Pieces(value, {i \in 1..(Len(value) - 1) : LineCut(value[i], value[i + 1])})

Flavors == {"Char", "Word", "Css", "Line"}

tokenize(flavor, value) ==
  CASE flavor = "Char" -> CharTokenize(value)
    [] flavor = "Word" -> WordTokenize(value)
    [] flavor = "Css" -> CssTokenize(value)
    [] flavor = "Line" -> LineTokenize(value)

\* ---------------------------------------------------------------- equality
\* The ignoreWhitespace field of a strategy object and the argument of a call
FlagValues == {"true", "false", "undefined"}
Truthy(f) == f = "true"

\* s.replace(/^\s+|\s+$|\s+(?=\s)/g, ""): the leading and the trailing run of
\* whitespace go, and of an inner run all but its last character
KeptIndex(s, i) ==
  \/ ~IsSpace(s[i])
  \/ /\ i < Len(s)
     /\ ~IsSpace(s[i + 1])
     /\ \E j \in 1..(i - 1) : ~IsSpace(s[j])
RECURSIVE KeepFrom(_, _)
KeepFrom(s, i) ==
  IF i > Len(s) THEN <<>>
  ELSE (IF KeptIndex(s, i) THEN <<s[i]>> ELSE <<>>) \o KeepFrom(s, i + 1)
StripWhitespace(s) == KeepFrom(s, 1)

\* CharDiff._equals, WordDiff._equals, CssDiff._equals, LineDiff._equals
underscoreEquals(flavor, flag, left, right) ==
  IF flavor = "Line" /\ Truthy(flag)
  THEN StripWhitespace(left) = StripWhitespace(right)
  ELSE left = right

\* fbDiff.prototype.equals; flag is this.ignoreWhitespace
equals(flavor, flag, left, right) ==
  IF Truthy(flag) /\ NoNonSpace(left) /\ NoNonSpace(right)
  THEN TRUE
  ELSE underscoreEquals(flavor, flag, left, right)

\* -------------------------------------------------------------------- heap
\* paths[p] = [newPos, components]: a Path object, components naming an array;
\* arrays[a]: a components array, a sequence of component names;
\* comps[c] = [value, helperValue, added, removed]: a component object.
EmptyHeap == [paths |-> <<>>, arrays |-> <<>>, comps |-> <<>>]

\* The components of array a, read through the references
Resolve(H, a) == [i \in 1..Len(H.arrays[a]) |-> H.comps[H.arrays[a][i]]]

\* The Path p as a value: its newPos and its components read through
PathValue(H, p) == [newPos |-> H.paths[p].newPos,
                    components |-> Resolve(H, H.paths[p].components)]

\* A clone that keeps the array of the original: no slice(0)
clonePathShared(H, path) ==
  [H EXCEPT !.paths = Append(H.paths, [newPos |-> H.paths[path].newPos,
                                       components |-> H.paths[path].components])]

\* clonePath: a new Path object with a new array that holds the same
\* component objects (slice(0)); the clone is the last path of the heap.
clonePath(H, path) ==
  LET arrays1 == Append(H.arrays, H.arrays[H.paths[path].components])
  IN [H EXCEPT !.arrays = arrays1,
               !.paths = Append(H.paths, [newPos |-> H.paths[path].newPos,
                                          components |-> Len(arrays1)])]

\* A test that takes the undefined flags of an unchanged component for no match
sameKindChanged(last, added, removed) ==
  (added \/ removed) /\ last.added = added /\ last.removed = removed

\* The test of pushComponent: the last component has the same flags
sameKind(last, added, removed) == last.added = added /\ last.removed = removed

\* fbDiff.prototype.pushComponent on the array named components
pushComponent(H, components, value, helperValue, added, removed) ==
  LET arr == H.arrays[components]
      n == Len(arr)
  IN IF n > 0 /\ sameKind(H.comps[arr[n]], added, removed)
     THEN LET last == H.comps[arr[n]]
              comps1 == Append(H.comps,
                          [value |-> join(last.value, value),
                           helperValue |-> join(last.helperValue, helperValue),
                           added |-> added, removed |-> removed])
          IN [H EXCEPT !.comps = comps1,
                       !.arrays[components] = [arr EXCEPT ![n] = Len(comps1)]]
     ELSE LET comps1 == Append(H.comps,
                          [value |-> value, helperValue |-> helperValue,
                           added |-> added, removed |-> removed])
          IN [H EXCEPT !.comps = comps1,
                       !.arrays[components] = Append(arr, Len(comps1))]

\* The while loop of extractCommon, from the positions newPos and oldPos
RECURSIVE extractCommonLoop(_, _, _, _, _, _, _, _)
extractCommonLoop(H, components, newString, oldString, newPos, oldPos, flavor, flag) ==
  IF /\ newPos + 1 < Len(newString)
     /\ oldPos + 1 < Len(oldString)
     /\ equals(flavor, flag, At(newString, newPos + 1), At(oldString, oldPos + 1))
  THEN extractCommonLoop(
         pushComponent(H, components, At(newString, newPos + 1),
                       At(oldString, oldPos + 1), FALSE, FALSE),
         components, newString, oldString, newPos + 1, oldPos + 1, flavor, flag)
  ELSE [heap |-> H, newPos |-> newPos]

\* fbDiff.prototype.extractCommon: the heap after it; the oldPos it returns
\* is the new basePath.newPos - diagonalPath.
extractCommon(H, basePath, newString, oldString, diagonalPath, flavor, flag) ==
  LET r == extractCommonLoop(H, H.paths[basePath].components, newString, oldString,
                             H.paths[basePath].newPos,
                             H.paths[basePath].newPos - diagonalPath, flavor, flag)
  IN [r.heap EXCEPT !.paths[basePath].newPos = r.newPos]

\* ------------------------------------------------------------------ search
\* The locals of one diff call.  pc: "returned" after a return of a
\* components array (result), "exhausted" after the loop ran out and the
\* function returned undefined, "search" inside the loop, about to run the
\* body for (editLength, diagonalPath).
NoSearch ==
  [pc |-> "idle", oldString |-> <<>>, newString |-> <<>>, bestPath |-> <<>>,
   editLength |-> 0, diagonalPath |-> 0, heap |-> EmptyHeap, result |-> <<>>]

\* The test with > for >=
completeStrict(newPos, oldPos, newLen, oldLen) == newPos + 1 > newLen /\ oldPos + 1 > oldLen

\* The test of line 103 (and 67): the path covers both token sequences
complete(newPos, oldPos, newLen, oldLen) == newPos + 1 >= newLen /\ oldPos + 1 >= oldLen

\* The short circuits without the test of an empty newString
shortCircuitNoEmptyNew(oldStr, newStr) ==
  IF newStr = oldStr THEN <<[value |-> newStr, added |-> FALSE, removed |-> FALSE]>>
  ELSE IF oldStr = <<>> THEN <<[value |-> newStr, added |-> TRUE, removed |-> FALSE]>>
  ELSE <<>>

\* The short circuits of lines 48-56: the components returned, or <<>> if
\* none applies
shortCircuit(oldStr, newStr) ==
  IF newStr = oldStr THEN <<[value |-> newStr, added |-> FALSE, removed |-> FALSE]>>
  ELSE IF newStr = <<>> THEN <<[value |-> oldStr, added |-> FALSE, removed |-> TRUE]>>
  ELSE IF oldStr = <<>> THEN <<[value |-> newStr, added |-> TRUE, removed |-> FALSE]>>
  ELSE <<>>

\* diff, lines 47-71: the short circuits, the tokenization, the seed and the
\* entry of the loop
beginDiff(flavor, flag, oldStr, newStr) ==
  IF shortCircuit(oldStr, newStr) # <<>>
  THEN [NoSearch EXCEPT !.pc = "returned", !.result = shortCircuit(oldStr, newStr)]
  ELSE
    LET newString == tokenize(flavor, newStr)
        oldString == tokenize(flavor, oldStr)
        newLen == Len(newString)
        oldLen == Len(oldString)
        maxEditLength == newLen + oldLen
        H0 == [paths |-> <<[newPos |-> -1, components |-> 1]>>,
               arrays |-> << <<>> >>, comps |-> <<>>]
        H1 == extractCommon(H0, 1, newString, oldString, 0, flavor, flag)
        oldPos == H1.paths[1].newPos
        s == [pc |-> "search", oldString |-> oldString, newString |-> newString,
              bestPath |-> [k \in -(maxEditLength + 1)..(maxEditLength + 1) |->
                              IF k = 0 THEN 1 ELSE 0],
              editLength |-> 1, diagonalPath |-> -1, heap |-> H1, result |-> <<>>]
    IN IF complete(H1.paths[1].newPos, oldPos, newLen, oldLen)
       THEN [s EXCEPT !.pc = "returned", !.editLength = 0, !.diagonalPath = 0,
                      !.result = Resolve(H1, 1)]
       ELSE IF 1 <= maxEditLength THEN s
       ELSE [s EXCEPT !.pc = "exhausted"]

\* A choice that branches from removePath whenever it can
branchFromRemoveEager(canAdd, canRemove, addNewPos, removeNewPos) ==
  ~canAdd \/ canRemove

\* The choice of line 92: branch from removePath (TRUE) or from addPath
branchFromRemove(canAdd, canRemove, addNewPos, removeNewPos) ==
  ~canAdd \/ (canRemove /\ addNewPos < removeNewPos)

\* The loop headers of lines 71-72 after the body for diagonalPath: the next
\* (editLength, diagonalPath), or the end of the loop
advance(s) ==
  LET maxEditLength == Len(s.newString) + Len(s.oldString)
  IN IF s.diagonalPath + 2 <= s.editLength
     THEN [s EXCEPT !.diagonalPath = s.diagonalPath + 2]
     ELSE IF s.editLength + 1 <= maxEditLength
          THEN [s EXCEPT !.editLength = s.editLength + 1,
                         !.diagonalPath = -(s.editLength + 1)]
          ELSE [s EXCEPT !.pc = "exhausted", !.editLength = s.editLength + 1]

\* diff, lines 73-107: the body of the loop for (editLength, diagonalPath),
\* then the loop headers
searchStep(s, flavor, flag) ==
  LET k == s.diagonalPath
      H == s.heap
      newLen == Len(s.newString)
      oldLen == Len(s.oldString)
      addPath == s.bestPath[k - 1]
      removePath == s.bestPath[k + 1]
      oldPos == (IF removePath # 0 THEN H.paths[removePath].newPos ELSE 0) - k
      bestPath1 == IF addPath # 0 THEN [s.bestPath EXCEPT ![k - 1] = 0] ELSE s.bestPath
      canAdd == addPath # 0 /\ H.paths[addPath].newPos + 1 < newLen
      canRemove == removePath # 0 /\ 0 <= oldPos /\ oldPos < oldLen
  IN IF ~canAdd /\ ~canRemove
     THEN advance([s EXCEPT !.bestPath = [bestPath1 EXCEPT ![k] = 0]])
     ELSE
       LET fromRemove == branchFromRemove(canAdd, canRemove,
                            IF addPath # 0 THEN H.paths[addPath].newPos ELSE 0,
                            IF removePath # 0 THEN H.paths[removePath].newPos ELSE 0)
           H1 == clonePath(H, IF fromRemove THEN removePath ELSE addPath)
           basePath == Len(H1.paths)
           H2 == IF fromRemove
                 THEN pushComponent(H1, H1.paths[basePath].components,
                                    At(s.oldString, oldPos), <<>>, FALSE, TRUE)
                 ELSE LET H1a == [H1 EXCEPT !.paths[basePath].newPos = @ + 1]
                      IN pushComponent(H1a, H1a.paths[basePath].components,
                                       At(s.newString, H1a.paths[basePath].newPos),
                                       <<>>, TRUE, FALSE)
           H3 == extractCommon(H2, basePath, s.newString, s.oldString, k, flavor, flag)
           oldPos2 == H3.paths[basePath].newPos - k
       IN IF complete(H3.paths[basePath].newPos, oldPos2, newLen, oldLen)
          THEN [s EXCEPT !.pc = "returned", !.heap = H3, !.bestPath = bestPath1,
                         !.result = Resolve(H3, H3.paths[basePath].components)]
          ELSE advance([s EXCEPT !.heap = H3,
                                 !.bestPath = [bestPath1 EXCEPT ![k] = basePath]])

\* A whole call of diff from the state s at its loop entry
RECURSIVE runSearch(_, _, _)
runSearch(s, flavor, flag) ==
  IF s.pc = "search" THEN runSearch(searchStep(s, flavor, flag), flavor, flag) ELSE s

\* ------------------------------------------------------------------- patch
\* current.value.replace(/\n$/, "").split("\n")
RECURSIVE splitNewline(_, _)
splitNewline(value, cur) ==
  IF value = <<>> THEN <<cur>>
  ELSE IF Head(value) = "\n" THEN <<cur>> \o splitNewline(Tail(value), <<>>)
  ELSE splitNewline(Tail(value), Append(cur, Head(value)))
endsWithNewline(value) == value # <<>> /\ value[Len(value)] = "\n"
splitLines(value) ==
  splitNewline(IF endsWithNewline(value) THEN SubSeq(value, 1, Len(value) - 1) ELSE value,
               <<>>)

\* lines.slice(-n)
lastLines(lines, n) ==
  IF Len(lines) <= n THEN lines ELSE SubSeq(lines, Len(lines) - n + 1, Len(lines))
\* lines.slice(0, n)
firstLines(lines, n) == IF Len(lines) <= n THEN lines ELSE SubSeq(lines, 1, n)

\* lines.map(function(entry) { return prefix + entry; }): an output line is
\* kept as its prefix and its text
prefixed(prefix, lines) ==
  [j \in 1..Len(lines) |-> [kind |-> "line", prefix |-> prefix, text |-> lines[j]]]

\* The shift the patch formatter's contract states: by the number of context
\* lines that were pulled
contextShiftClamped(prevLines) == Len(lastLines(prevLines, 4))

\* The shift of the range start by the leading context (lines 225-226)
contextShift(prevLines) == 4

Min(a, b) == IF a <= b THEN a ELSE b

\* The locals of createPatch outside a call
NoPatch ==
  [diff |-> <<>>, i |-> 0, oldRangeStart |-> 0, newRangeStart |-> 0,
   curRange |-> <<>>, oldLine |-> 1, newLine |-> 1, ret |-> <<>>]

\* createPatch, lines 200-211: the header, the line diff with the sentinel
\* appended, the locals of the loop.  components is what LineDiff.diff returned.
beginPatch(fileName, oldHeader, newHeader, components) ==
  [NoPatch EXCEPT
     !.ret = <<[kind |-> "Index", fileName |-> fileName],
               [kind |-> "separator"],
               [kind |-> "---", fileName |-> fileName, header |-> oldHeader],
               [kind |-> "+++", fileName |-> fileName, header |-> newHeader]>>,
     !.diff = Append(components,
                     [value |-> <<>>, lines |-> <<>>, added |-> FALSE, removed |-> FALSE])]

\* createPatch, lines 213-255: the body of the loop for the component i
patchStep(p) ==
  LET current == p.diff[p.i + 1]
      lines == IF "lines" \in DOMAIN current THEN current.lines
               ELSE splitLines(current.value)
      diff1 == [p.diff EXCEPT ![p.i + 1] =
                  [value |-> current.value, lines |-> lines,
                   added |-> current.added, removed |-> current.removed]]
      p1 == [p EXCEPT !.diff = diff1, !.i = p.i + 1]
  IN IF current.added \/ current.removed
     THEN
       LET opened ==
             IF p.oldRangeStart = 0
             THEN IF p.i >= 1
                  THEN LET prev == p.diff[p.i]
                       IN [p1 EXCEPT
                             !.curRange = p.curRange \o prefixed(" ", lastLines(prev.lines, 4)),
                             !.oldRangeStart = p.oldLine - contextShift(prev.lines),
                             !.newRangeStart = p.newLine - contextShift(prev.lines)]
                  ELSE [p1 EXCEPT !.oldRangeStart = p.oldLine,
                                  !.newRangeStart = p.newLine]
             ELSE p1
       IN [opened EXCEPT
             !.curRange = opened.curRange
                            \o prefixed(IF current.added THEN "+" ELSE "-", lines),
             !.newLine = IF current.added THEN p.newLine + Len(lines) ELSE p.newLine,
             !.oldLine = IF current.added THEN p.oldLine ELSE p.oldLine + Len(lines)]
     ELSE
       LET closed ==
             IF p.oldRangeStart # 0
             THEN IF Len(lines) <= 8 /\ p.i < Len(p.diff) - 1
                  THEN [p1 EXCEPT !.curRange = p.curRange \o prefixed(" ", lines)]
                  ELSE LET contextSize == Min(Len(lines), 4)
                       IN [p1 EXCEPT
                             !.ret = Append(p.ret,
                                       [kind |-> "hunk",
                                        oldStart |-> p.oldRangeStart,
                                        oldCount |-> p.oldLine - p.oldRangeStart + contextSize,
                                        newStart |-> p.newRangeStart,
                                        newCount |-> p.newLine - p.newRangeStart + contextSize])
                                     \o p.curRange
                                     \o prefixed(" ", firstLines(lines, contextSize)),
                             !.oldRangeStart = 0, !.newRangeStart = 0,
                             !.curRange = <<>>]
             ELSE p1
       IN [closed EXCEPT !.oldLine = p.oldLine + Len(lines),
                         !.newLine = p.newLine + Len(lines)]

\* createPatch, lines 257-261: the marker of a missing final newline; the
\* lines of ret are what join("\n") makes the returned text of
endPatch(p) ==
  IF Len(p.diff) > 1 /\ ~endsWithNewline(p.diff[Len(p.diff) - 1].value)
  THEN [p EXCEPT !.ret = Append(p.ret, [kind |-> "nonewline"])]
  ELSE p

\* ------------------------------------------------------------------- state
VARIABLES
  ignoreWhitespace,   \* the ignoreWhitespace field of CharDiff, WordDiff, CssDiff, LineDiff
  call,               \* the public operation running or just returned, its arguments, and
                      \* the ignoreWhitespace field of its strategy object before the call
  calls,              \* the number of public operations called so far
  pc,                 \* where the running operation is
  oldString, newString, bestPath, editLength, diagonalPath,   \* locals of diff
  heap,               \* the Path, array and component objects of the running diff
  result,             \* the components array diff returned
  patch               \* the locals of createPatch

searchVars == <<pc, oldString, newString, bestPath, editLength, diagonalPath, heap, result>>
vars == <<ignoreWhitespace, call, calls, pc, oldString, newString, bestPath,
          editLength, diagonalPath, heap, result, patch>>

NoCall == [op |-> "none"]

\* The locals of diff as one record, and their update
Locals ==
  [pc |-> pc, oldString |-> oldString, newString |-> newString, bestPath |-> bestPath,
   editLength |-> editLength, diagonalPath |-> diagonalPath, heap |-> heap,
   result |-> result]
SetLocals(s) ==
  /\ pc' = s.pc
  /\ oldString' = s.oldString
  /\ newString' = s.newString
  /\ bestPath' = s.bestPath
  /\ editLength' = s.editLength
  /\ diagonalPath' = s.diagonalPath
  /\ heap' = s.heap
  /\ result' = s.result

\* The ignoreWhitespace fields as constructed: CharDiff = new fbDiff(),
\* WordDiff = new fbDiff(false), CssDiff = new fbDiff(true), LineDiff = new fbDiff()
constructed ==
  [f \in Flavors |->
     CASE f = "Char" -> "undefined" [] f = "Word" -> "false"
       [] f = "Css" -> "true" [] f = "Line" -> "undefined"]

Init ==
  /\ ignoreWhitespace = constructed
  /\ call = NoCall
  /\ calls = 0
  /\ pc = "idle" /\ oldString = <<>> /\ newString = <<>> /\ bestPath = <<>>
  /\ editLength = 0 /\ diagonalPath = 0 /\ heap = EmptyHeap /\ result = <<>>
  /\ patch = NoPatch

\* A store that keeps the field when the argument is missing
storeFlagSticky(field, arg) == IF arg = "undefined" THEN field ELSE arg

\* Line 46: this.ignoreWhitespace = ignoreWhitespace
storeFlag(field, arg) == arg

\* fbDiff.prototype.diff called on the strategy object of flavor, up to its
\* return or the entry of its loop (no operation is running: pc = "idle")
Diff(op, flavor, oldStr, newStr, arg) ==
  /\ ignoreWhitespace' = [ignoreWhitespace EXCEPT ![flavor] = storeFlag(@, arg)]
  /\ call' = [op |-> op, flavor |-> flavor, oldStr |-> oldStr, newStr |-> newStr,
              ignoreWhitespace |-> arg, fieldBefore |-> ignoreWhitespace[flavor]]
  /\ calls' = calls + 1
  /\ \E s \in {beginDiff(flavor, ignoreWhitespace'[flavor], oldStr, newStr)} : SetLocals(s)
  /\ UNCHANGED patch

diffChars(S) ==
  /\ pc = "idle"
  /\ \E oldStr \in S, newStr \in S, arg \in FlagValues :
       Diff("diffChars", "Char", oldStr, newStr, arg)
diffWords(S) ==
  /\ pc = "idle"
  /\ \E oldStr \in S, newStr \in S, arg \in FlagValues :
       Diff("diffWords", "Word", oldStr, newStr, arg)
diffLines(S) ==
  /\ pc = "idle"
  /\ \E oldStr \in S, newStr \in S, arg \in FlagValues :
       Diff("diffLines", "Line", oldStr, newStr, arg)
\* CssDiff.diff(oldStr, newStr): no third argument
diffCss(S) ==
  /\ pc = "idle"
  /\ \E oldStr \in S, newStr \in S :
       Diff("diffCss", "Css", oldStr, newStr, "undefined")

\* One pass of the body of the inner loop of diff
DiagonalStep ==
  /\ pc = "search"
  /\ \E s \in {searchStep(Locals, call.flavor, ignoreWhitespace[call.flavor])} :
       SetLocals(s)
  /\ UNCHANGED <<ignoreWhitespace, call, calls, patch>>

\* createPatch up to the entry of its loop: LineDiff.diff(oldStr, newStr) runs
\* to its return inside
createPatch(S) ==
  /\ pc = "idle"
  /\ \E oldStr \in S, newStr \in S :
    /\ ignoreWhitespace' = [ignoreWhitespace EXCEPT !["Line"] = storeFlag(@, "undefined")]
    /\ call' = [op |-> "createPatch", flavor |-> "Line", oldStr |-> oldStr,
                newStr |-> newStr, ignoreWhitespace |-> "undefined",
                fieldBefore |-> ignoreWhitespace["Line"]]
    /\ calls' = calls + 1
    /\ \E s \in {runSearch(beginDiff("Line", ignoreWhitespace'["Line"], oldStr, newStr),
                           "Line", ignoreWhitespace'["Line"])} :
          /\ SetLocals([s EXCEPT !.pc = IF s.pc = "returned" THEN "patch" ELSE "threw"])
          /\ patch' = IF s.pc = "returned"
                      THEN beginPatch("f", "h1", "h2", s.result)
                      ELSE NoPatch

\* One pass of the body of the loop of createPatch
PatchStep ==
  /\ pc = "patch"
  /\ patch.i < Len(patch.diff)
  /\ patch' = patchStep(patch)
  /\ UNCHANGED <<ignoreWhitespace, call, calls, searchVars>>

\* The end of createPatch
PatchEnd ==
  /\ pc = "patch"
  /\ patch.i >= Len(patch.diff)
  /\ patch' = endPatch(patch)
  /\ pc' = "patched"
  /\ UNCHANGED <<ignoreWhitespace, call, calls, oldString, newString, bestPath,
                 editLength, diagonalPath, heap, result>>

\* The operation has returned; its locals are gone and the next call may start
Return ==
  /\ pc \in {"returned", "exhausted", "patched"}
  /\ calls < MaxCalls
  /\ SetLocals(NoSearch)
  /\ patch' = NoPatch
  /\ call' = NoCall
  /\ UNCHANGED <<ignoreWhitespace, calls>>

\* The texts of createPatch: up to MaxPatchLines lines of one character, the
\* last one with or without its newline
RECURSIVE terminated(_)
terminated(ls) == IF ls = <<>> THEN <<>> ELSE <<Head(ls), "\n">> \o terminated(Tail(ls))
PatchTexts ==
  LET lineSeqs == UNION {[1..m -> LineAlphabet] : m \in 0..MaxPatchLines}
  IN {terminated(ls) : ls \in lineSeqs}
     \cup {SubSeq(terminated(ls), 1, 2 * Len(ls) - 1) : ls \in lineSeqs \ {<<>>}}

\* One diff call on a fresh library
Next ==
  \/ diffChars(StringsUpTo(MaxLen))
  \/ diffWords(StringsUpTo(MaxLen))
  \/ diffLines(StringsUpTo(MaxLen))
  \/ diffCss(StringsUpTo(MaxLen))
  \/ DiagonalStep
Spec == Init /\ [][Next]_vars

\* A sequence of calls of the public operations
NextCalls ==
  \/ diffChars(StringsUpTo(MaxCallLen))
  \/ diffWords(StringsUpTo(MaxCallLen))
  \/ diffLines(StringsUpTo(MaxCallLen))
  \/ diffCss(StringsUpTo(MaxCallLen))
  \/ createPatch(StringsUpTo(MaxCallLen))
  \/ DiagonalStep
  \/ PatchStep
  \/ PatchEnd
  \/ Return
SpecCalls == Init /\ [][NextCalls]_vars

\* One createPatch call on a fresh library
NextPatch ==
  \/ createPatch(PatchTexts)
  \/ PatchStep
  \/ PatchEnd
SpecPatch == Init /\ [][NextPatch]_vars

\* ================================================================== claims
DiffOps == {"diffChars", "diffWords", "diffLines", "diffCss"}
DiffReturned == pc = "returned" /\ call.op \in DiffOps
\* The loop of diff was entered (the tokenization of a non-empty string is
\* not empty)
Searched == oldString # <<>>

RECURSIVE SumSeq(_)
SumSeq(ns) == IF ns = <<>> THEN 0 ELSE Head(ns) + SumSeq(Tail(ns))

\* The text of the components that are not removed, and of those not added
NotRemovedText(cs) == Flatten([i \in 1..Len(cs) |-> IF cs[i].removed THEN <<>> ELSE cs[i].value])
NotAddedText(cs) == Flatten([i \in 1..Len(cs) |-> IF cs[i].added THEN <<>> ELSE cs[i].value])
HasKind(cs, added, removed) ==
  \E i \in 1..Len(cs) : cs[i].added = added /\ cs[i].removed = removed

\* C1 as stated: in the list a diff operation returns, the values of the
\* components that are not removed concatenate to the new string, and the
\* values of those that are not added concatenate to the old string.
RoundTripBothSides ==
  DiffReturned =>
    /\ NotRemovedText(result) = call.newStr
    /\ NotAddedText(result) = call.oldStr

\* C1 amended: the not-removed values always concatenate to the new string;
\* the not-added values concatenate to the old string whenever the call's
\* ignoreWhitespace argument is not true.
RoundTrip ==
  DiffReturned =>
    /\ NotRemovedText(result) = call.newStr
    /\ ~Truthy(call.ignoreWhitespace) => NotAddedText(result) = call.oldStr

RoundTripWitness ==
  /\ DiffReturned /\ Searched /\ editLength >= 2
  /\ HasKind(result, FALSE, FALSE) /\ HasKind(result, TRUE, FALSE)
  /\ HasKind(result, FALSE, TRUE)

\* The length of a longest common subsequence of the token sequences a and b
\* under the equality of the strategy: the brute-force reference
RECURSIVE LCS(_, _, _, _)
LCS(a, b, flavor, flag) ==
  IF a = <<>> \/ b = <<>> THEN 0
  ELSE LET skipA == LCS(Tail(a), b, flavor, flag)
           skipB == LCS(a, Tail(b), flavor, flag)
           best == IF skipA >= skipB THEN skipA ELSE skipB
       IN IF equals(flavor, flag, Head(b), Head(a))
          THEN LET both == 1 + LCS(Tail(a), Tail(b), flavor, flag)
               IN IF both >= best THEN both ELSE best
          ELSE best
ShortestEdit(a, b, flavor, flag) == Len(a) + Len(b) - 2 * LCS(a, b, flavor, flag)

\* The tokens of the added and the removed components of cs
ChangedTokens(cs, flavor) ==
  SumSeq([i \in 1..Len(cs) |->
            IF cs[i].added \/ cs[i].removed THEN Len(tokenize(flavor, cs[i].value)) ELSE 0])

\* C2: the script a diff operation returns adds and removes as few tokens as
\* any edit script for the tokenization and the equality of the call, and the
\* search returns it at the first editLength at which a complete path exists.
Minimality ==
  DiffReturned =>
    LET d == ShortestEdit(tokenize(call.flavor, call.oldStr),
                          tokenize(call.flavor, call.newStr),
                          call.flavor, ignoreWhitespace[call.flavor])
    IN /\ ChangedTokens(result, call.flavor) = d
       /\ Searched => editLength = d

MinimalityWitness ==
  /\ DiffReturned /\ Searched /\ editLength >= 2
  /\ editLength < Len(oldString) + Len(newString)
  /\ HasKind(result, FALSE, FALSE)

\* No two adjacent components of cs have the same (added, removed) pair
Coalesced(cs) ==
  \A i \in 1..(Len(cs) - 1) :
    ~(cs[i].added = cs[i + 1].added /\ cs[i].removed = cs[i + 1].removed)

\* C3: no two adjacent components have the same (added, removed) pair, in
\* the list a diff operation returns and in the components of every Path at
\* every step of the search.
Coalescing ==
  call.op \in DiffOps =>
    /\ Coalesced(result)
    /\ \A p \in 1..Len(heap.paths) : Coalesced(Resolve(heap, heap.paths[p].components))

CoalescingWitness ==
  /\ pc = "search" /\ call.op \in DiffOps
  /\ \E p \in 1..Len(heap.paths) :
       LET cs == Resolve(heap, heap.paths[p].components)
       IN /\ Len(cs) >= 2
          /\ \E i \in 1..Len(cs) : Len(tokenize(call.flavor, cs[i].value)) >= 2

\* C4 as stated: for every string S, diff(S, "") returns the one component
\* {value: S, removed: true} and diff("", S) the one component
\* {value: S, added: true}, decided before any tokenization or search step.
TotalDeletionInsertionAnyString ==
  (call.op \in DiffOps /\ pc # "idle") =>
    /\ call.newStr = <<>> =>
         /\ pc = "returned" /\ ~Searched /\ heap = EmptyHeap
         /\ result = <<[value |-> call.oldStr, added |-> FALSE, removed |-> TRUE]>>
    /\ call.oldStr = <<>> =>
         /\ pc = "returned" /\ ~Searched /\ heap = EmptyHeap
         /\ result = <<[value |-> call.newStr, added |-> TRUE, removed |-> FALSE]>>

\* C4 amended: the same for every non-empty string S.
TotalDeletionInsertion ==
  (call.op \in DiffOps /\ pc # "idle") =>
    /\ (call.newStr = <<>> /\ call.oldStr # <<>>) =>
         /\ pc = "returned" /\ ~Searched /\ heap = EmptyHeap
         /\ result = <<[value |-> call.oldStr, added |-> FALSE, removed |-> TRUE]>>
    /\ (call.oldStr = <<>> /\ call.newStr # <<>>) =>
         /\ pc = "returned" /\ ~Searched /\ heap = EmptyHeap
         /\ result = <<[value |-> call.newStr, added |-> TRUE, removed |-> FALSE]>>

TotalDeletionInsertionWitness ==
  /\ DiffReturned
  /\ \/ call.newStr = <<>> /\ Len(call.oldStr) >= 2
     \/ call.oldStr = <<>> /\ Len(call.newStr) >= 2

\* The token sequences a and b differ only in the content of tokens that hold
\* no non-whitespace character
SameButWhitespace(a, b) ==
  /\ Len(a) = Len(b)
  /\ \A i \in 1..Len(a) : a[i] = b[i] \/ (NoNonSpace(a[i]) /\ NoNonSpace(b[i]))

\* C5: diffCss compares tokens with whitespace-insensitive equality: two
\* inputs that differ only in the content of whitespace tokens yield no added
\* and no removed component.
CssWhitespaceInsensitive ==
  (pc = "returned" /\ call.op = "diffCss"
     /\ SameButWhitespace(CssTokenize(call.oldStr), CssTokenize(call.newStr)))
    => ~HasKind(result, TRUE, FALSE) /\ ~HasKind(result, FALSE, TRUE)

\* What the call would return on a fresh library: the strategy objects as
\* constructed, no call before it
FreshReturn ==
  LET flag == storeFlag(constructed[call.flavor], call.ignoreWhitespace)
      s == runSearch(beginDiff(call.flavor, flag, call.oldStr, call.newStr),
                     call.flavor, flag)
  IN [pc |-> s.pc, result |-> s.result]

\* C7: after any sequence of earlier calls, a diff operation returns what the
\* same call returns on a fresh library.
NoStateCrossesCalls ==
  (call.op \in DiffOps /\ pc \in {"returned", "exhausted"}) =>
    [pc |-> pc, result |-> result] = FreshReturn

\* a call without the flag, on whitespace that differs, after a call that
\* left true on the same strategy object
NoStateCrossesCallsWitness ==
  /\ DiffReturned /\ calls >= 2
  /\ call.fieldBefore = "true" /\ call.ignoreWhitespace = "undefined"
  /\ call.oldStr # call.newStr
  /\ NoNonSpace(call.oldStr) /\ NoNonSpace(call.newStr)
  /\ HasKind(result, TRUE, FALSE)

\* C8: the search always returns a complete edit script: the loop never runs
\* out (diff never returns undefined), and the path returned covers both
\* token sequences at an editLength of at most oldLen + newLen.
SearchReturns ==
  /\ pc # "exhausted"
  /\ (DiffReturned /\ Searched) =>
       LET last == heap.paths[Len(heap.paths)]
       IN /\ editLength <= Len(oldString) + Len(newString)
          /\ result = Resolve(heap, last.components)
          /\ last.newPos + 1 >= Len(newString)
          /\ (last.newPos - diagonalPath) + 1 >= Len(oldString)

SearchReturnsWitness ==
  /\ DiffReturned /\ Searched
  /\ editLength = Len(oldString) + Len(newString)
  /\ editLength >= 4

\* C9: a step of the search leaves every Path stored as the best of a
\* diagonal as it was: its newPos and the value and flags of each of its
\* components.
NoAliasing ==
  [][(pc = "search" /\ call.op \in DiffOps) =>
       \A k \in DOMAIN bestPath :
         bestPath[k] # 0 => PathValue(heap', bestPath[k]) = PathValue(heap, bestPath[k])]_vars

\* two stored Paths cloned from one prior Path (they share its first component
\* object), one of them with a last component that was merged
NoAliasingWitness ==
  /\ pc = "search" /\ call.op \in DiffOps
  /\ \E j, k \in DOMAIN bestPath :
       /\ j # k /\ bestPath[j] # 0 /\ bestPath[k] # 0
       /\ LET aj == heap.arrays[heap.paths[bestPath[j]].components]
              ak == heap.arrays[heap.paths[bestPath[k]].components]
          IN /\ Len(aj) >= 2 /\ Len(ak) >= 2
             /\ aj[1] = ak[1]
             /\ aj[Len(aj)] # ak[Len(ak)]
             /\ Len(tokenize(call.flavor, heap.comps[aj[Len(aj)]].value)) >= 2

\* The hunk headers of the output ret, and the body lines of the hunk whose
\* header is ret[h]: the lines up to the next header
IsHunk(ret, h) == ret[h].kind = "hunk"
HunkEnd(ret, h) ==
  LET later == {j \in (h + 1)..Len(ret) : ret[j].kind # "line"}
  IN IF later = {} THEN Len(ret) ELSE (CHOOSE j \in later : \A l \in later : j <= l) - 1
HunkBody(ret, h) == SubSeq(ret, h + 1, HunkEnd(ret, h))
WithPrefix(body, prefixes) == SelectSeq(body, LAMBDA l : l.prefix \in prefixes)
Texts(body) == [j \in 1..Len(body) |-> body[j].text]

\* The lines start..start+Len(side)-1 of text are the lines side
LinesAt(text, start, side) ==
  LET all == IF text = <<>> THEN <<>> ELSE splitLines(text)
  IN /\ start >= 1
     /\ start + Len(side) - 1 <= Len(all)
     /\ SubSeq(all, start, start + Len(side) - 1) = side

\* C6: in the output of createPatch every hunk header declares as oldCount
\* the number of context and - lines of its body and as newCount the number
\* of context and + lines, and its oldStart and newStart are the 1-based line
\* numbers, in the old and the new text, of the first line of the body.
HunkHeadersConsistent ==
  pc = "patched" =>
    \A h \in 1..Len(patch.ret) :
      IsHunk(patch.ret, h) =>
        LET body == HunkBody(patch.ret, h)
            oldSide == Texts(WithPrefix(body, {" ", "-"}))
            newSide == Texts(WithPrefix(body, {" ", "+"}))
        IN /\ patch.ret[h].oldCount = Len(oldSide)
           /\ patch.ret[h].newCount = Len(newSide)
           /\ LinesAt(call.oldStr, patch.ret[h].oldStart, oldSide)
           /\ LinesAt(call.newStr, patch.ret[h].newStart, newSide)

\* The changed lines the line diff holds, in order, as output lines
RECURSIVE ChangedLines(_)
ChangedLines(diff) ==
  IF diff = <<>> THEN <<>>
  ELSE (IF Head(diff).added THEN prefixed("+", Head(diff).lines)
        ELSE IF Head(diff).removed THEN prefixed("-", Head(diff).lines)
        ELSE <<>>) \o ChangedLines(Tail(diff))

\* C10: every line of every added or removed component of the line diff is
\* in the output of createPatch exactly once, prefixed + or -, in a hunk that
\* a hunk header precedes; a hunk that was opened has been emitted when the
\* sentinel has been processed.
PatchComplete ==
  pc = "patched" =>
    /\ SelectSeq(patch.ret, LAMBDA l : l.kind = "line" /\ l.prefix \in {"+", "-"})
         = ChangedLines(patch.diff)
    /\ \A j \in 1..Len(patch.ret) :
         patch.ret[j].kind = "line" => \E h \in 1..(j - 1) : IsHunk(patch.ret, h)
    /\ patch.curRange = <<>>

====
